---- MODULE Spec2Model ----
(***************************************************************************)
(* QC Tool - Data Extractor (src/data_extractor.py).                       *)
(*                                                                         *)
(* main validates the two paths, parses --pages, loads the template, calls *)
(* extract_data_from_pdf and saves the document it returns.                *)
(* extract_data_from_pdf walks the requested pages of a PDF and, for each  *)
(* page, the field definitions of a template; every field is dispatched on *)
(* its type to the image-overlap check, the barcode/QR fallback chain      *)
(* (decode_barcodes_and_qr) or the text extractors.  The model follows the *)
(* control flow of the two functions position by position (pc).            *)
(*                                                                         *)
(* The external libraries (PyMuPDF, pyzbar, OpenCV, QReader, Tesseract)    *)
(* are the environment: what each of them returns, or that it raises, on   *)
(* the regions of a page is part of the page (doc[i]) and is drawn in Init.*)
(* Python strings are TLA+ strings, None is NoneVal, an exception that     *)
(* leaves a call is an outcome record with exc = TRUE.  Coordinates are    *)
(* exact rationals <<numerator, denominator>> (floating-point error is not *)
(* modelled); round(x, 2) yields an integer number of hundredths.          *)
(***************************************************************************)
EXTENDS Integers, Sequences, FiniteSets, TLC

VARIABLES
    PYZBAR_AVAILABLE,   \* module flag, data_extractor.py:19-24
    QREADER_AVAILABLE,  \* module flag, data_extractor.py:26-30
    template_exists,    \* os.path.exists(args.template)
    pdf_exists,         \* os.path.exists(args.pdf)
    template_file,      \* the JSON in the file at args.template
    args_pages,         \* --pages split at the commas; <<>> is no --pages
    template,           \* main's template: the loaded template dictionary
    doc,                \* the PDF at args.pdf: a sequence of pages
    pages,              \* page_list / the pages argument (0-indexed); <<>> is None
    pc,                 \* position in main / extract_data_from_pdf / decode_barcodes_and_qr
    printed,            \* what this run of main has printed about its progress
    exit_status,        \* <<>> while main runs, <<n>> once it has returned n
    output_file,        \* <<>> while there is no output file, else <<its JSON>>
    run,                \* the number of this run of the tool
    previous,           \* the output file as the run before this one left it
    results,            \* extract_data_from_pdf's results dictionary
    pages_to_process,   \* line 245
    page_pos,           \* position of the page loop in pages_to_process (1-based)
    scale,              \* <<scale_x, scale_y>> of the current page
    page_result,        \* the page_result dictionary being filled
    field_pos,          \* position of the field loop in template.fields (1-based)
    rect,               \* the rect tuple of the current field (line 278)
    decode,             \* decode_barcodes_and_qr's results dictionary
    calls,              \* history: the backends invoked for the current field
    app,                \* template_marker.py: the TemplateMarkerApp object
    saved_template      \* template_marker.py: <<>> or <<the template last saved>>

vars == <<PYZBAR_AVAILABLE, QREADER_AVAILABLE, template_exists, pdf_exists,
          template_file, args_pages, template, doc, pages, pc, printed,
          exit_status, output_file, run, previous, results,
          pages_to_process, page_pos, scale, page_result, field_pos, rect,
          decode, calls, app, saved_template>>

\* what extract_data_from_pdf is given
inputs == <<PYZBAR_AVAILABLE, QREADER_AVAILABLE, template, doc, pages>>

\* the command line, the files and what main leaves behind
invocation == <<template_exists, pdf_exists, template_file, args_pages, printed,
                exit_status, output_file, run, previous>>

\* the local variables of extract_data_from_pdf and decode_barcodes_and_qr
extraction == <<results, pages_to_process, page_pos, scale, page_result,
                field_pos, rect, decode, calls>>

\* the template marker, a program of its own
marker == <<app, saved_template>>

\* the data extractor, a program of its own
extractor == <<inputs, invocation, extraction, pc>>

-----------------------------------------------------------------------------
(* Bounds of the model. *)

\* longest template (number of field definitions)
MaxFields == 2
\* longest document (number of pages)
MaxDocPages == 2
\* longest --pages list
MaxRequested == 2
\* most symbols one backend call returns
MaxCodes == 2
\* most image placements overlapping one region
MaxImages == 2
\* most runs of the tool over the same files
MaxRuns == 2
\* most fields the template marker holds at a time
MaxMarked == 1

-----------------------------------------------------------------------------
(* Python values. *)

NoneVal == "None"

\* truth value of an optional string: None and "" are falsy
Truthy(s) == s # NoneVal /\ s # ""

\* a call that returned val / a call that raised Exception("e")
Returned(val) == [exc |-> FALSE, val |-> val]
Raised(val) == [exc |-> TRUE, val |-> val]

-----------------------------------------------------------------------------
(* Coordinates: rationals <<n, d>> with d > 0. *)

RatLe(a, b) == a[1] * b[2] <= b[1] * a[2]

\* round(x, 2), in hundredths (round-half-even, as Python rounds)
Round2(q) ==
    LET n == 100 * q[1]
        d == q[2]
        fl == n \div d
        r == n % d
    IN  IF 2 * r < d THEN fl
        ELSE IF 2 * r > d THEN fl + 1
        ELSE IF fl % 2 = 0 THEN fl ELSE fl + 1

\* a scale factor that divides by the magnitude of any non-zero dimension
ScaleFactorByMagnitude(page_dim, template_dim) ==
    IF template_dim > 0 THEN <<page_dim, template_dim>>
    ELSE IF template_dim < 0 THEN <<page_dim, 0 - template_dim>>
    ELSE <<1, 1>>

\* lines 256-257: page / template if template > 0 else 1.0
ScaleFactor(page_dim, template_dim) ==
    IF template_dim > 0 THEN <<page_dim, template_dim>> ELSE <<1, 1>>

\* a rectangle taken from the template as it is
ScaledRectUnscaled(field_def, sc) ==
    [x0 |-> <<field_def.x0, 1>>, y0 |-> <<field_def.y0, 1>>,
     x1 |-> <<field_def.x1, 1>>, y1 |-> <<field_def.y1, 1>>]

\* lines 274-278: the field's coordinates times the scale factors
ScaledRect(field_def, sc) ==
    [x0 |-> <<field_def.x0 * sc[1][1], sc[1][2]>>,
     y0 |-> <<field_def.y0 * sc[2][1], sc[2][2]>>,
     x1 |-> <<field_def.x1 * sc[1][1], sc[1][2]>>,
     y1 |-> <<field_def.y1 * sc[2][1], sc[2][2]>>]

\* the "coordinates" entry of a result (lines 287-288, 306-307, 315-316, 332-333)
Coordinates(r) ==
    [x0 |-> Round2(r.x0), y0 |-> Round2(r.y0),
     x1 |-> Round2(r.x1), y1 |-> Round2(r.y1)]

-----------------------------------------------------------------------------
(* decode_barcodes_and_qr: the fallback chain. *)

\* lines 100-105
InitialDecode ==
    [decoded |-> FALSE, codes |-> <<>>, method |-> NoneVal, error |-> NoneVal]

\* bytes.decode('utf-8'): raises UnicodeDecodeError on bytes that are not UTF-8
BadBytes == "\\xff"

DecodeUtf8(data) ==
    IF data = BadBytes THEN Raised("") ELSE Returned(data)

\* lines 114-126 and 199-204: the loop over decoded_objects, appending one
\* entry per object until obj.data.decode('utf-8') raises
RECURSIVE ConvertObjects(_, _)
ConvertObjects(objs, quality) ==
    IF objs = <<>> THEN Returned(<<>>)
    ELSE LET text == DecodeUtf8(Head(objs).data)
         IN  IF text.exc THEN Raised(<<>>)
             ELSE LET rest == ConvertObjects(Tail(objs), quality)
                      code == [type |-> Head(objs).type, data |-> text.val,
                               quality |-> quality]
                  IN  [exc |-> rest.exc, val |-> <<code>> \o rest.val]

\* lines 151-154, 173-176, 207-210: append a diagnostic to results["error"]
AddError(res, msg) ==
    [res EXCEPT !.error = IF Truthy(@) THEN @ \o "; " \o msg ELSE msg]

\* Each method yields [res: the results dictionary, ret: the function returned,
\* called: the backend was invoked].

\* lines 108-129; out is the outcome of pyzbar.decode(img_array)
Method1(res, out) ==
    IF ~PYZBAR_AVAILABLE THEN [res |-> res, ret |-> FALSE, called |-> FALSE]
    ELSE IF out.exc
    THEN [res |-> [res EXCEPT !.error = "pyzbar error: e"],
          ret |-> FALSE, called |-> TRUE]
    ELSE IF out.val # <<>>
    THEN LET conv == ConvertObjects(out.val, "good")
             found == [res EXCEPT !.decoded = TRUE, !.method = "pyzbar",
                                  !.codes = @ \o conv.val]
         IN  IF conv.exc
             THEN [res |-> [found EXCEPT !.error = "pyzbar error: e"],
                   ret |-> FALSE, called |-> TRUE]
             ELSE [res |-> found, ret |-> TRUE, called |-> TRUE]
    ELSE [res |-> res, ret |-> FALSE, called |-> TRUE]

\* lines 132-154; out is the outcome of cvtColor + QRCodeDetector.detectAndDecode
Method2(res, out) ==
    IF res.decoded THEN [res |-> res, ret |-> FALSE, called |-> FALSE]
    ELSE IF out.exc
    THEN [res |-> AddError(res, "opencv error: e"), ret |-> FALSE, called |-> TRUE]
    ELSE IF Truthy(out.val)
    THEN [res |-> [res EXCEPT !.decoded = TRUE, !.method = "opencv_qr",
                              !.codes = Append(@, [type |-> "QRCODE",
                                                   data |-> out.val,
                                                   quality |-> "opencv"])],
          ret |-> TRUE, called |-> TRUE]
    ELSE [res |-> res, ret |-> FALSE, called |-> TRUE]

\* lines 164-170: one entry per truthy text of decoded_text
RECURSIVE QReaderCodes(_)
QReaderCodes(texts) ==
    IF texts = <<>> THEN <<>>
    ELSE (IF Truthy(Head(texts))
          THEN <<[type |-> "QRCODE", data |-> Head(texts), quality |-> "qreader"]>>
          ELSE <<>>) \o QReaderCodes(Tail(texts))

\* line 161: decoded_text and decoded_text[0]
QReaderFound(texts) == texts # <<>> /\ Truthy(texts[1])

\* lines 157-176; out is the outcome of QReader().detect_and_decode
Method3(res, out) ==
    IF res.decoded \/ ~QREADER_AVAILABLE
    THEN [res |-> res, ret |-> FALSE, called |-> FALSE]
    ELSE IF out.exc
    THEN [res |-> AddError(res, "qreader error: e"), ret |-> FALSE, called |-> TRUE]
    ELSE IF QReaderFound(out.val)
    THEN [res |-> [res EXCEPT !.decoded = TRUE, !.method = "qreader",
                              !.codes = @ \o QReaderCodes(out.val)],
          ret |-> TRUE, called |-> TRUE]
    ELSE [res |-> res, ret |-> FALSE, called |-> TRUE]

\* lines 179-210; out is the outcome of cvtColor, GaussianBlur,
\* adaptiveThreshold and pyzbar.decode(thresh)
Method4(res, out) ==
    IF res.decoded \/ ~PYZBAR_AVAILABLE
    THEN [res |-> res, ret |-> FALSE, called |-> FALSE]
    ELSE IF out.exc
    THEN [res |-> AddError(res, "preprocessing error: e"),
          ret |-> FALSE, called |-> TRUE]
    ELSE IF out.val # <<>>
    THEN LET conv == ConvertObjects(out.val, "preprocessed")
             found == [res EXCEPT !.decoded = TRUE,
                                  !.method = "pyzbar_preprocessed",
                                  !.codes = @ \o conv.val]
         IN  IF conv.exc
             THEN [res |-> AddError(found, "preprocessing error: e"),
                   ret |-> FALSE, called |-> TRUE]
             ELSE [res |-> found, ret |-> TRUE, called |-> TRUE]
    ELSE [res |-> res, ret |-> FALSE, called |-> TRUE]

\* lines 212-215
FinalDecode(res) ==
    IF ~res.decoded
    THEN [res EXCEPT !.error = IF Truthy(@) THEN @
                               ELSE "No barcode or QR code detected in region"]
    ELSE res

-----------------------------------------------------------------------------
(* The strategies of the other field types. *)

\* str.strip(): drop leading and trailing whitespace (text is a sequence of
\* one-character strings)
IsSpace(c) == c \in {" ", "\n", "\t"}

RECURSIVE LStrip(_)
LStrip(t) == IF t # <<>> /\ IsSpace(Head(t)) THEN LStrip(Tail(t)) ELSE t

RECURSIVE RStrip(_)
RStrip(t) ==
    IF t # <<>> /\ IsSpace(t[Len(t)]) THEN RStrip(SubSeq(t, 1, Len(t) - 1)) ELSE t

Strip(t) == RStrip(LStrip(t))

\* the Python string of a sequence of characters
RECURSIVE Str(_)
Str(t) == IF t = <<>> THEN "" ELSE Head(t) \o Str(Tail(t))

\* lines 39-43
extract_text_from_rect(page, r) == Returned(Str(Strip(page.text)))

\* an OCR helper without the try: the exception of the backend leaves it
extract_text_via_ocr_unguarded(page, r) ==
    IF page.pixmap.exc \/ page.tesseract.exc THEN Raised("")
    ELSE Returned(Str(Strip(page.tesseract.val)))

\* lines 46-63: the pixmap calls are outside the try, the recognition inside
extract_text_via_ocr(page, r) ==
    IF page.pixmap.exc THEN Raised("")
    ELSE IF page.tesseract.exc THEN Returned("[OCR Failed: " \o "e" \o "]")
    ELSE Returned(Str(Strip(page.tesseract.val)))

\* fitz.Rect predicates on rectangles of rationals
RectIsEmpty(r) == RatLe(r.x1, r.x0) \/ RatLe(r.y1, r.y0)

RatMax(a, b) == IF RatLe(a, b) THEN b ELSE a
RatMin(a, b) == IF RatLe(a, b) THEN a ELSE b

\* line 78: img_rect.intersects(target_rect)
Intersects(a, b) ==
    /\ ~RectIsEmpty(a)
    /\ ~RectIsEmpty(b)
    /\ ~RectIsEmpty([x0 |-> RatMax(a.x0, b.x0), y0 |-> RatMax(a.y0, b.y0),
                     x1 |-> RatMin(a.x1, b.x1), y1 |-> RatMin(a.y1, b.y1)])

\* a count of images rather than of placements: 1 when any placement of the
\* image intersects the target
CountRectsOncePerImage(img_rects, target) ==
    IF \E k \in 1..Len(img_rects) : ~RectIsEmpty(target) /\ ~RectIsEmpty(img_rects[k])
          /\ RatLe(img_rects[k].x0, target.x1) /\ RatLe(target.x0, img_rects[k].x1)
          /\ RatLe(img_rects[k].y0, target.y1) /\ RatLe(target.y0, img_rects[k].y1)
    THEN 1 ELSE 0

\* lines 76-79: the placements of one image that intersect the target
RECURSIVE CountRects(_, _)
CountRects(img_rects, target) ==
    IF img_rects = <<>> THEN 0
    ELSE (IF Intersects(Head(img_rects), target) THEN 1 ELSE 0)
         + CountRects(Tail(img_rects), target)

\* lines 72-79: the loop over image_list
RECURSIVE CountImages(_, _)
CountImages(image_list, target) ==
    IF image_list = <<>> THEN 0
    ELSE CountRects(Head(image_list), target) + CountImages(Tail(image_list), target)

\* lines 66-81
check_images_in_rect(page, r) ==
    LET image_count == CountImages(page.images, r)
    IN  <<image_count > 0, image_count>>

-----------------------------------------------------------------------------
(* extract_data_from_pdf: the result records. *)

\* dict.get with a default
FieldType(field_def) ==
    IF "type" \in DOMAIN field_def THEN field_def.type ELSE "text"

OcrMode(field_def) ==
    IF "ocr" \in DOMAIN field_def THEN field_def.ocr ELSE FALSE

TemplatePageWidth(t) == IF "page_width" \in DOMAIN t THEN t.page_width ELSE 0

TemplatePageHeight(t) == IF "page_height" \in DOMAIN t THEN t.page_height ELSE 0

TemplateFields(t) == IF "fields" \in DOMAIN t THEN t.fields ELSE <<>>

\* a field loop that takes the fields marked on this page only
FieldsMarkedOnPage(t, page_num) ==
    SelectSeq(TemplateFields(t),
              LAMBDA fd : "page" \notin DOMAIN fd \/ fd.page = page_num)

\* line 268: the field loop takes every field definition, on every page
FieldsToEvaluate(t, page_num) == TemplateFields(t)

\* lines 282-289
ImageResult(found, r) ==
    [value |-> IF found[1] THEN ToString(found[2]) \o " image(s) found"
               ELSE "No images found",
     has_images |-> found[1],
     image_count |-> found[2],
     type |-> "image",
     coordinates |-> Coordinates(r)]

\* lines 296-301: " | ".join of "type: data"
RECURSIVE CodesSummary(_)
CodesSummary(codes) ==
    IF codes = <<>> THEN ""
    ELSE Head(codes).type \o ": " \o Head(codes).data
         \o (IF Tail(codes) = <<>> THEN "" ELSE " | " \o CodesSummary(Tail(codes)))

\* lines 294-317
BarcodeResult(decode_result, r) ==
    IF decode_result.decoded
    THEN [value |-> IF decode_result.codes # <<>>
                    THEN CodesSummary(decode_result.codes)
                    ELSE "No code detected",
          decoded |-> decode_result.decoded,
          codes |-> decode_result.codes,
          method |-> decode_result.method,
          type |-> "barcode",
          coordinates |-> Coordinates(r)]
    ELSE [value |-> "No code detected",
          decoded |-> FALSE,
          error |-> decode_result.error,
          type |-> "barcode",
          coordinates |-> Coordinates(r)]

\* a text result tagged without looking at the text
TextResultAlwaysExtracted(text, method, r) ==
    [value |-> text,
     confidence |-> "extracted",
     type |-> "text",
     method |-> method,
     coordinates |-> Coordinates(r)]

\* lines 327-334
TextResult(text, method, r) ==
    [value |-> text,
     confidence |-> IF text # "" THEN "extracted" ELSE "empty",
     type |-> "text",
     method |-> method,
     coordinates |-> Coordinates(r)]

\* a dictionary that keeps one value per field name
AppendFieldOverwriting(fields, field_name, result_data) ==
    (field_name :> <<result_data>>) @@ fields

\* lines 336-339: append to the list of values of this field name
AppendField(fields, field_name, result_data) ==
    IF field_name \notin DOMAIN fields
    THEN fields @@ (field_name :> <<result_data>>)
    ELSE [fields EXCEPT ![field_name] = Append(@, result_data)]

\* line 245
PagesToProcess(requested, n) ==
    IF requested # <<>> THEN requested ELSE [i \in 1..n |-> i - 1]

\* an off-by-one bound check
BeyondDocumentOffByOne(page_num, n) == page_num > n

\* line 248
BeyondDocument(page_num, n) == page_num >= n

\* line 251: doc[page_num]; PyMuPDF counts a negative number from the end
PageAt(d, page_num) == d[(page_num % Len(d)) + 1]

-----------------------------------------------------------------------------
(* main: the checks and conversions before and after the extraction. *)

\* a check of the template path alone
PathCheckTemplateOnly(te, pe) ==
    IF ~te THEN [found |-> FALSE, msg |-> "Error: Template file not found"]
    ELSE [found |-> TRUE, msg |-> ""]

\* lines 446-451: the two os.path.exists tests, the template first
PathCheck(te, pe) ==
    IF ~te THEN [found |-> FALSE, msg |-> "Error: Template file not found"]
    ELSE IF ~pe THEN [found |-> FALSE, msg |-> "Error: PDF file not found"]
    ELSE [found |-> TRUE, msg |-> ""]

\* the integers a --pages token of the model can denote: a negative number,
\* zero, the pages of the document, and one beyond the longest document
PageArgs == -1..(MaxDocPages + 1)

\* line 457, int(p.strip()): the integer the token is the numeral of,
\* ValueError when it is none
ParseInt(tok) ==
    LET ns == {n \in PageArgs : ToString(n) = tok}
    IN  IF ns = {} THEN Raised(0) ELSE Returned(CHOOSE n \in ns : TRUE)

\* lines 454-460: page_list, 0-indexed; no --pages leaves it None
RECURSIVE ParsePageList(_)
ParsePageList(tokens) ==
    IF tokens = <<>> THEN Returned(<<>>)
    ELSE LET n == ParseInt(Head(tokens))
             rest == ParsePageList(Tail(tokens))
         IN  IF n.exc \/ rest.exc THEN Raised(<<>>)
             ELSE Returned(<<n.val - 1>> \o rest.val)

\* lines 33-36: json.load of the template file
load_template(file) == file

\* main's template before line 463 has run
NotLoaded == <<>>

\* a results dictionary that keeps the pages it already holds
NewResultsKeeping(n) ==
    [results EXCEPT !.extraction_date = run, !.total_pages = n]

\* lines 236-242: a new results dictionary; extraction_date is the time of
\* the call, which differs from run to run
NewResults(n) == [extraction_date |-> run, total_pages |-> n, pages |-> <<>>]

-----------------------------------------------------------------------------
(* The inputs of a run. *)

SeqsUpTo(S, n) == UNION {[1..k -> S] : k \in 0..n}

Int2(n) == <<n, 1>>

PlacementRect(a, b, c, d) ==
    [x0 |-> Int2(a), y0 |-> Int2(b), x1 |-> Int2(c), y1 |-> Int2(d)]

\* image placements inside and outside the sample field rectangle
PlacementRects == {PlacementRect(20, 25, 40, 45), PlacementRect(300, 300, 400, 400)}

\* what pyzbar.decode may return: a CODE128 symbol with text, a QR symbol
\* whose payload is not UTF-8
PyzbarObjects ==
    {[type |-> "CODE128", data |-> "A"], [type |-> "QRCODE", data |-> BadBytes]}

PyzbarOutcomes ==
    {Raised(<<>>)} \cup {Returned(objs) : objs \in SeqsUpTo(PyzbarObjects, MaxCodes)}

OpenCVOutcomes == {Raised(""), Returned(""), Returned("Q")}

\* QReader.detect_and_decode: one entry per detected QR code, None when it
\* was detected but not decoded
QReaderOutcomes ==
    {Raised(<<>>)} \cup {Returned(t) : t \in SeqsUpTo({NoneVal, "Q"}, MaxCodes)}

\* a page on which nothing is found and no library fails
BlankPage ==
    [width |-> 600, height |-> 800,
     pixmap |-> Returned("png"),
     text |-> <<>>,
     tesseract |-> Returned(<<" ", "\n">>),
     images |-> <<>>,
     pyzbar |-> Returned(<<>>),
     opencv |-> Returned(""),
     qreader |-> Returned(<<>>),
     pyzbar_pre |-> Returned(<<>>)]

\* a page with text, an image and a barcode in every region
FullPage ==
    [BlankPage EXCEPT !.text = <<" ", "T", "\n">>,
                      !.tesseract = Returned(<<"T", " ">>),
                      !.images = <<<<PlacementRect(20, 25, 40, 45)>>>>,
                      !.pyzbar = Returned(<<[type |-> "CODE128", data |-> "A"]>>)]

\* a page whose regions cannot be rasterized (get_pixmap / tobytes / Image.open raise)
UnrenderablePage == [FullPage EXCEPT !.pixmap = Raised("")]

\* a page on which every recognition backend raises
FailingPage ==
    [FullPage EXCEPT !.tesseract = Raised(<<>>),
                     !.pyzbar = Raised(<<>>),
                     !.opencv = Raised(""),
                     !.qreader = Raised(<<>>),
                     !.pyzbar_pre = Raised(<<>>)]

ProfilePages == {BlankPage, FullPage, UnrenderablePage, FailingPage}

FieldNames == {"Barcode Number", "UFI"}

RecognisedFieldTypes == {"text", "image", "barcode"}

FieldTypes == RecognisedFieldTypes \cup {"stamp"}

\* x0, y0, x1, y1 as a template stores them, in the four corner orders
FieldRects == {<<10, 20, 100, 50>>, <<100, 20, 10, 50>>,
               <<10, 50, 100, 20>>, <<100, 50, 10, 20>>}

\* a field definition as the template marker writes it
FieldDef(n, r, t, o) ==
    [name |-> n, page |-> 0, x0 |-> r[1], y0 |-> r[2], x1 |-> r[3], y1 |-> r[4],
     type |-> t, ocr |-> o]

\* a field definition of a legacy template: no "type", no "ocr"
LegacyFieldDef(n, r) ==
    [name |-> n, x0 |-> r[1], y0 |-> r[2], x1 |-> r[3], y1 |-> r[4]]

SampleRect == <<10, 20, 100, 50>>

\* the numerals a --pages token can be
PageTokens == {ToString(n) : n \in PageArgs}

Template(w, h, fields) == [page_width |-> w, page_height |-> h, fields |-> fields]

Scenario(pyzbar, qreader, t, d, p) ==
    [pyzbar |-> pyzbar, qreader |-> qreader, template |-> t, doc |-> d, pages |-> p]

\* the outcomes a scenario draws for a backend: all of them when it is
\* installed, none (it is never called) when it is not
OutcomesIf(installed, outcomes, unused) == IF installed THEN outcomes ELSE {unused}

BarcodeTemplate ==
    Template(0, 0, <<FieldDef("Barcode Number", SampleRect, "barcode", FALSE)>>)

\* templates of every mix of names, types and OCR flags
DispatchFieldDefs ==
    {FieldDef(n, SampleRect, t, o) : n \in FieldNames, t \in FieldTypes, o \in BOOLEAN}
    \cup {LegacyFieldDef(n, SampleRect) : n \in FieldNames}

-----------------------------------------------------------------------------
(* template_marker.py: FieldBox and the parts of the handlers without state. *)

Min(a, b) == IF a <= b THEN a ELSE b
Max(a, b) == IF a >= b THEN a ELSE b

\* FieldBox.__init__, lines 63-75
FieldBox(name, pg, x0, y0, x1, y1, field_type, ocr_mode) ==
    [name |-> name, page |-> pg,
     x0 |-> Min(x0, x1), y0 |-> Min(y0, y1), x1 |-> Max(x0, x1), y1 |-> Max(y0, y1),
     field_type |-> field_type, ocr_mode |-> ocr_mode]

\* FieldBox.to_dict, lines 78-88 (the coordinates of the model are whole
\* numbers, which round(x, 2) leaves as they are)
to_dict(f) ==
    [name |-> f.name, page |-> f.page, x0 |-> f.x0, y0 |-> f.y0, x1 |-> f.x1,
     y1 |-> f.y1, type |-> f.field_type, ocr |-> f.ocr_mode]

\* FieldBox.from_dict, lines 90-101
from_dict(d) ==
    FieldBox(d.name, d.page, d.x0, d.y0, d.x1, d.y1,
             IF "type" \in DOMAIN d THEN d.type ELSE "text",
             IF "ocr" \in DOMAIN d THEN d.ocr ELSE FALSE)

\* lines 416 and 676: the type the marker derives from a field name
TypeForName(name) == IF name = "Danger Images" THEN "image" ELSE "text"

\* line 692
ToggledType(field_type) == IF field_type = "text" THEN "image" ELSE "text"

\* TemplateMarkerApp.__init__, lines 107-133
NewApp ==
    [pdf_doc |-> <<>>, current_page |-> 0, total_pages |-> 0, fields |-> <<>>,
     selected_field |-> 0]

\* the marker has been started and nothing has been saved
MarkerIdle == app = NewApp /\ saved_template = <<>>

\* the names the field name dialog of the model offers (PRESET_FIELDS)
DialogNames == {"Barcode Number", "Danger Images"}

\* the presets that name a barcode or QR region
BarcodePresets == {"Barcode Number", "QR Code"}

\* the boxes the user drags: press point, then release point
DrawnRects == {<<10, 20, 100, 50>>, <<100, 50, 10, 20>>, <<200, 20, 300, 50>>}

\* templates on disk that were not written in this session: one marked on
\* the last page of the longest PDF with the canonical barcode type, and a
\* legacy one without "type" and "ocr"
StockTemplates ==
    {[fields |-> <<[name |-> "QR Code", page |-> MaxDocPages - 1, x0 |-> 10,
                    y0 |-> 20, x1 |-> 100, y1 |-> 50, type |-> "barcode",
                    ocr |-> FALSE]>>],
     [fields |-> <<[name |-> "UFI", page |-> 0, x0 |-> 10, y0 |-> 20,
                    x1 |-> 100, y1 |-> 50]>>]}

-----------------------------------------------------------------------------
(* The state machine. *)

NoRect == PlacementRect(0, 0, 0, 0)

NoPageResult == [page_number |-> 0,
                 page_dimensions |-> [width |-> 0, height |-> 0],
                 fields |-> <<>>]

\* the results variable before extract_data_from_pdf has assigned it
NoResults == [extraction_date |-> 0, total_pages |-> 0, pages |-> <<>>]

\* main is entered on the command line and files of scenario sc; te and pe
\* tell whether the template file and the PDF exist
SetupFiles(sc, te, pe) ==
    /\ PYZBAR_AVAILABLE = sc.pyzbar
    /\ QREADER_AVAILABLE = sc.qreader
    /\ template_exists = te
    /\ pdf_exists = pe
    /\ template_file = IF te THEN sc.template ELSE NotLoaded
    /\ doc = IF pe THEN sc.doc ELSE <<>>
    /\ args_pages = sc.pages
    /\ template = NotLoaded
    /\ pages = <<>>
    /\ pc = "main"
    /\ printed = <<>>
    /\ exit_status = <<>>
    /\ output_file = <<>>
    /\ run = 1
    /\ previous = <<>>
    /\ results = NoResults
    /\ pages_to_process = <<>>
    /\ page_pos = 1
    /\ scale = <<Int2(1), Int2(1)>>
    /\ page_result = NoPageResult
    /\ field_pos = 1
    /\ rect = NoRect
    /\ decode = InitialDecode
    /\ calls = <<>>

\* main is entered with both files in place
Setup(sc) == SetupFiles(sc, TRUE, TRUE)

\* one barcode field over one page: every combination of installed backends
\* and of their outcomes; and a page that cannot be rasterized
InitChain ==
    \/ \E pz \in BOOLEAN, qr \in BOOLEAN :
         \E o1 \in OutcomesIf(pz, PyzbarOutcomes, Returned(<<>>)),
            o2 \in OpenCVOutcomes,
            o3 \in OutcomesIf(qr, QReaderOutcomes, Returned(<<>>)),
            o4 \in OutcomesIf(pz, PyzbarOutcomes, Returned(<<>>)) :
             Setup(Scenario(pz, qr, BarcodeTemplate,
                            <<[BlankPage EXCEPT !.pyzbar = o1, !.opencv = o2,
                                                !.qreader = o3, !.pyzbar_pre = o4]>>,
                            <<>>))
    \/ Setup(Scenario(TRUE, TRUE, BarcodeTemplate,
                      <<[BlankPage EXCEPT !.pixmap = Raised("")]>>, <<>>))

\* templates of every mix of names, types and OCR flags over one page
InitDispatch ==
    \/ \E k \in 1..MaxFields :
         \E fs \in [1..k -> DispatchFieldDefs], pg \in ProfilePages :
             Setup(Scenario(TRUE, TRUE, Template(0, 0, fs), <<pg>>, <<>>))
    \/ Setup(Scenario(TRUE, TRUE, [pdf_name |-> "legacy.pdf"], <<FullPage>>, <<>>))

\* one field in every corner order, every reference size (a template may
\* hold any number, negative ones included)
InitGeometry ==
    \E r \in FieldRects :
        \/ \E w \in {-300, 0, 300, 800}, h \in {-400, 0, 400}, t \in RecognisedFieldTypes :
             Setup(Scenario(TRUE, FALSE, Template(w, h, <<FieldDef("UFI", r, t, FALSE)>>),
                            <<FullPage>>, <<>>))
        \/ Setup(Scenario(TRUE, FALSE, [fields |-> <<FieldDef("UFI", r, "text", FALSE)>>],
                          <<FullPage>>, <<>>))

\* every list of up to MaxImages placements of one image
InitImages ==
    \E w \in {0, 300}, r \in {SampleRect, <<10, 20, 10, 50>>}, k \in 0..MaxImages :
        \E pl \in [1..k -> PlacementRects] :
            Setup(Scenario(FALSE, FALSE,
                           Template(w, 0, <<FieldDef("Danger Images", r, "image", FALSE)>>),
                           <<[BlankPage EXCEPT !.images = <<pl>>]>>, <<>>))

\* every --pages list of numerals over documents of every length
InitPages ==
    \E o \in BOOLEAN, n \in 1..MaxDocPages, k \in 0..MaxRequested :
        \E d \in [1..n -> {FullPage, UnrenderablePage}], p \in [1..k -> PageTokens] :
            Setup(Scenario(FALSE, FALSE,
                           Template(0, 0, <<FieldDef("UFI", SampleRect, "text", o),
                                            FieldDef("UFI", SampleRect, "image", o)>>),
                           d, p))

\* files that are there or not, --pages that parses or not
InitMain ==
    \E te \in BOOLEAN, pe \in BOOLEAN, p \in {<<>>, <<"1">>, <<"x">>, <<"1", "x">>} :
        SetupFiles(Scenario(TRUE, TRUE,
                            Template(300, 400, <<FieldDef("UFI", SampleRect, "text", FALSE)>>),
                            <<FullPage>>, p),
                   te, pe)

\* two fields marked on any pages of the PDF the template was drawn on,
\* over documents of every length
InitMarked ==
    \E n \in 1..MaxDocPages, p1 \in 0..MaxDocPages, p2 \in 0..MaxDocPages :
        Setup(Scenario(FALSE, FALSE,
                       Template(0, 0,
                                <<[FieldDef("UFI", SampleRect, "text", FALSE)
                                      EXCEPT !.page = p1],
                                  [FieldDef("Barcode Number", SampleRect, "image", FALSE)
                                      EXCEPT !.page = p2]>>),
                       [i \in 1..n |-> FullPage], <<>>))

Init ==
    /\ MarkerIdle
    /\ \/ InitChain \/ InitDispatch \/ InitGeometry \/ InitImages \/ InitPages
       \/ InitMain \/ InitMarked

\* the loop variables
page_num == pages_to_process[page_pos]
page == PageAt(doc, page_num)
loop_fields == FieldsToEvaluate(template, page_num)
field_def == loop_fields[field_pos]
InFieldLoop == pc = "field_loop" /\ field_pos <= Len(loop_fields)

\* lines 446-451
ValidateInputs ==
    /\ pc = "main"
    /\ LET check == PathCheck(template_exists, pdf_exists)
       IN  IF check.found
           THEN /\ pc' = "parse_pages"
                /\ UNCHANGED <<printed, exit_status>>
           ELSE /\ printed' = Append(printed, check.msg)
                /\ exit_status' = <<1>>
                /\ pc' = "exit"
    /\ UNCHANGED <<marker, inputs, extraction, template_exists, pdf_exists, template_file,
                   args_pages, output_file, run, previous>>

\* lines 453-460
ParsePages ==
    /\ pc = "parse_pages"
    /\ LET page_list == ParsePageList(args_pages)
       IN  IF page_list.exc
           THEN /\ printed' = Append(printed, "Error: Invalid page numbers")
                /\ exit_status' = <<1>>
                /\ pc' = "exit"
                /\ pages' = pages
           ELSE /\ pages' = page_list.val
                /\ pc' = "load_template"
                /\ UNCHANGED <<printed, exit_status>>
    /\ UNCHANGED <<marker, PYZBAR_AVAILABLE, QREADER_AVAILABLE, template, doc, extraction,
                   template_exists, pdf_exists, template_file, args_pages,
                   output_file, run, previous>>

\* lines 462-464
LoadTemplate ==
    /\ pc = "load_template"
    /\ template' = load_template(template_file)
    /\ printed' = Append(printed, "Loaded template")
    /\ pc' = "start"
    /\ UNCHANGED <<marker, PYZBAR_AVAILABLE, QREADER_AVAILABLE, doc, pages, extraction,
                   template_exists, pdf_exists, template_file, args_pages,
                   exit_status, output_file, run, previous>>

\* lines 231-245
Start ==
    /\ pc = "start"
    /\ results' = NewResults(Len(doc))
    /\ pages_to_process' = PagesToProcess(pages, Len(doc))
    /\ page_pos' = 1
    /\ pc' = "page_loop"
    /\ UNCHANGED <<marker, inputs, invocation, scale, page_result, field_pos, rect, decode, calls>>

\* lines 247-249: a page number beyond the document
SkipPage ==
    /\ pc = "page_loop"
    /\ page_pos <= Len(pages_to_process)
    /\ BeyondDocument(page_num, Len(doc))
    /\ page_pos' = page_pos + 1
    /\ UNCHANGED <<marker, inputs, invocation, pc, results, pages_to_process, scale, page_result,
                   field_pos, rect, decode, calls>>

\* lines 251-266
BeginPage ==
    /\ pc = "page_loop"
    /\ page_pos <= Len(pages_to_process)
    /\ ~BeyondDocument(page_num, Len(doc))
    /\ scale' = <<ScaleFactor(page.width, TemplatePageWidth(template)),
                  ScaleFactor(page.height, TemplatePageHeight(template))>>
    /\ page_result' = [page_number |-> page_num + 1,
                       page_dimensions |-> [width |-> page.width,
                                            height |-> page.height],
                       fields |-> <<>>]
    /\ field_pos' = 1
    /\ pc' = "field_loop"
    /\ UNCHANGED <<marker, inputs, invocation, results, pages_to_process, page_pos, rect, decode, calls>>

\* lines 268-289 and 336-339: an image field
ImageField ==
    /\ InFieldLoop
    /\ FieldType(field_def) = "image"
    /\ LET r == ScaledRect(field_def, scale)
           result_data == ImageResult(check_images_in_rect(page, r), r)
       IN  /\ rect' = r
           /\ page_result' = [page_result EXCEPT
                  !.fields = AppendField(@, field_def.name, result_data)]
    /\ field_pos' = field_pos + 1
    /\ calls' = <<"get_images">>
    /\ UNCHANGED <<marker, inputs, invocation, pc, results, pages_to_process, page_pos, scale, decode>>

\* lines 318-339: any other type, OCR flag not set
DigitalTextField ==
    /\ InFieldLoop
    /\ FieldType(field_def) \notin {"image", "barcode"}
    /\ ~OcrMode(field_def)
    /\ LET r == ScaledRect(field_def, scale)
           text == extract_text_from_rect(page, r)
       IN  /\ rect' = r
           /\ page_result' = [page_result EXCEPT
                  !.fields = AppendField(@, field_def.name,
                                         TextResult(text.val, "digital", r))]
    /\ field_pos' = field_pos + 1
    /\ calls' = <<"get_text">>
    /\ UNCHANGED <<marker, inputs, invocation, pc, results, pages_to_process, page_pos, scale, decode>>

\* lines 318-339: any other type, OCR flag set; an exception of the pixmap
\* calls leaves extract_data_from_pdf
OcrTextField ==
    /\ InFieldLoop
    /\ FieldType(field_def) \notin {"image", "barcode"}
    /\ OcrMode(field_def)
    /\ LET r == ScaledRect(field_def, scale)
           text == extract_text_via_ocr(page, r)
       IN  /\ rect' = r
           /\ IF text.exc
              THEN /\ pc' = "raised"
                   /\ UNCHANGED <<page_result, field_pos>>
              ELSE /\ page_result' = [page_result EXCEPT
                          !.fields = AppendField(@, field_def.name,
                                                 TextResult(text.val, "ocr", r))]
                   /\ field_pos' = field_pos + 1
                   /\ pc' = pc
    /\ calls' = <<"get_pixmap">> \o (IF page.pixmap.exc THEN <<>> ELSE <<"tesseract">>)
    /\ UNCHANGED <<marker, inputs, invocation, results, pages_to_process, page_pos, scale, decode>>

\* lines 290-292 and 91-105: a barcode field enters decode_barcodes_and_qr
BarcodeField ==
    /\ InFieldLoop
    /\ FieldType(field_def) = "barcode"
    /\ rect' = ScaledRect(field_def, scale)
    /\ decode' = InitialDecode
    /\ calls' = <<"get_pixmap">>
    /\ pc' = IF page.pixmap.exc THEN "raised" ELSE "method1"
    /\ UNCHANGED <<marker, inputs, invocation, results, pages_to_process, page_pos, scale,
                   page_result, field_pos>>

Step(m, backend, next) ==
    /\ decode' = m.res
    /\ calls' = IF m.called THEN Append(calls, backend) ELSE calls
    /\ pc' = IF m.ret THEN "decode_return" ELSE next
    /\ UNCHANGED <<marker, inputs, invocation, results, pages_to_process, page_pos, scale,
                   page_result, field_pos, rect>>

\* lines 107-129
TryPyzbar ==
    /\ pc = "method1"
    /\ Step(Method1(decode, page.pyzbar), "pyzbar", "method2")

\* lines 131-154
TryOpenCV ==
    /\ pc = "method2"
    /\ Step(Method2(decode, page.opencv), "opencv_qr", "method3")

\* lines 156-176
TryQReader ==
    /\ pc = "method3"
    /\ Step(Method3(decode, page.qreader), "qreader", "method4")

\* lines 178-210
TryPreprocessed ==
    /\ pc = "method4"
    /\ Step(Method4(decode, page.pyzbar_pre), "pyzbar_preprocessed", "no_more_methods")

\* lines 212-215
ChainExhausted ==
    /\ pc = "no_more_methods"
    /\ decode' = FinalDecode(decode)
    /\ pc' = "decode_return"
    /\ UNCHANGED <<marker, inputs, invocation, results, pages_to_process, page_pos, scale,
                   page_result, field_pos, rect, calls>>

\* lines 294-317 and 336-339: the result of a barcode field
BarcodeFieldResult ==
    /\ pc = "decode_return"
    /\ page_result' = [page_result EXCEPT
           !.fields = AppendField(@, field_def.name, BarcodeResult(decode, rect))]
    /\ field_pos' = field_pos + 1
    /\ pc' = "field_loop"
    /\ UNCHANGED <<marker, inputs, invocation, results, pages_to_process, page_pos, scale, rect,
                   decode, calls>>

\* line 341
EndPage ==
    /\ pc = "field_loop"
    /\ field_pos > Len(loop_fields)
    /\ results' = [results EXCEPT !.pages = Append(@, page_result)]
    /\ page_pos' = page_pos + 1
    /\ pc' = "page_loop"
    /\ UNCHANGED <<marker, inputs, invocation, pages_to_process, scale, page_result, field_pos, rect,
                   decode, calls>>

\* lines 343-344
Finish ==
    /\ pc = "page_loop"
    /\ page_pos > Len(pages_to_process)
    /\ pc' = "done"
    /\ UNCHANGED <<marker, inputs, invocation, results, pages_to_process, page_pos, scale,
                   page_result, field_pos, rect, decode, calls>>

\* lines 469-481: the document is written to the output path, main returns 0
SaveOutput ==
    /\ pc = "done"
    /\ output_file' = <<results>>
    /\ printed' = Append(printed, "Data saved")
    /\ exit_status' = <<0>>
    /\ pc' = "exit"
    /\ UNCHANGED <<marker, inputs, extraction, template_exists, pdf_exists, template_file,
                   args_pages, run, previous>>

\* the tool is started again with the same command line, over the same files
\* and with the output file of the run before in place (lines 484-485)
Rerun ==
    /\ pc = "exit"
    /\ exit_status = <<0>>
    /\ run < MaxRuns
    /\ run' = run + 1
    /\ previous' = output_file
    /\ printed' = <<>>
    /\ exit_status' = <<>>
    /\ pc' = "main"
    /\ UNCHANGED <<marker, inputs, extraction, template_exists, pdf_exists, template_file,
                   args_pages, output_file>>

Next ==
    \/ ValidateInputs
    \/ ParsePages
    \/ LoadTemplate
    \/ Start
    \/ SkipPage
    \/ BeginPage
    \/ ImageField
    \/ DigitalTextField
    \/ OcrTextField
    \/ BarcodeField
    \/ TryPyzbar
    \/ TryOpenCV
    \/ TryQReader
    \/ TryPreprocessed
    \/ ChainExhausted
    \/ BarcodeFieldResult
    \/ EndPage
    \/ Finish
    \/ SaveOutput
    \/ Rerun

Spec == Init /\ [][Next]_vars

-----------------------------------------------------------------------------
(* template_marker.py: the handlers of TemplateMarkerApp. *)

\* the data extractor is not running
ExtractorIdle ==
    SetupFiles(Scenario(FALSE, FALSE, NotLoaded, <<>>, <<>>), FALSE, FALSE)

MarkerInit == MarkerIdle /\ ExtractorIdle

\* line 290: a fitz document is truthy when it has pages
PdfLoaded(a) == a.pdf_doc # <<>>

\* line 293: self.pdf_doc[self.current_page] raises IndexError
RenderRaises(a) == PdfLoaded(a) /\ a.current_page >= Len(a.pdf_doc)

\* lines 454-461, _get_field_at: the last field of the current page that
\* holds the point, 0 for None
FieldsAt(a, px, py) ==
    {i \in 1..Len(a.fields) :
        /\ a.fields[i].page = a.current_page
        /\ a.fields[i].x0 <= px /\ px <= a.fields[i].x1
        /\ a.fields[i].y0 <= py /\ py <= a.fields[i].y1}

get_field_at(a, px, py) ==
    IF FieldsAt(a, px, py) = {} THEN 0
    ELSE CHOOSE i \in FieldsAt(a, px, py) : \A j \in FieldsAt(a, px, py) : j <= i

\* lines 269-287, _open_pdf and _load_pdf: the fields stay as they are
OpenPdf ==
    /\ \E n \in 1..MaxDocPages :
           app' = [app EXCEPT !.pdf_doc = [i \in 1..n |-> "page"],
                              !.total_pages = n,
                              !.current_page = 0]
    /\ UNCHANGED <<saved_template, extractor>>

\* lines 316-319
PrevPage ==
    /\ PdfLoaded(app) /\ app.current_page > 0
    /\ app' = [app EXCEPT !.current_page = @ - 1]
    /\ UNCHANGED <<saved_template, extractor>>

\* lines 321-324
NextPage ==
    /\ PdfLoaded(app) /\ app.current_page < app.total_pages - 1
    /\ app' = [app EXCEPT !.current_page = @ + 1]
    /\ UNCHANGED <<saved_template, extractor>>

\* lines 350-368, _on_press on a box of the current page: the box is selected
OnPressSelect ==
    /\ PdfLoaded(app)
    /\ \E r \in DrawnRects :
           /\ get_field_at(app, r[1], r[2]) # 0
           /\ app' = [app EXCEPT !.selected_field = get_field_at(app, r[1], r[2])]
    /\ UNCHANGED <<saved_template, extractor>>

\* lines 350-368 and 384-428, _on_press outside every box, _on_drag and
\* _on_release with a name from the dialog: a new field on the current page
OnRelease ==
    /\ PdfLoaded(app)
    /\ Len(app.fields) < MaxMarked
    /\ \E r \in DrawnRects, field_name \in DialogNames, use_ocr \in BOOLEAN :
           /\ get_field_at(app, r[1], r[2]) = 0
           /\ app' = [app EXCEPT
                  !.fields = Append(@, FieldBox(field_name, app.current_page,
                                                r[1], r[2], r[3], r[4],
                                                TypeForName(field_name), use_ocr)),
                  !.selected_field = Len(app.fields) + 1]
    /\ UNCHANGED <<saved_template, extractor>>

\* lines 629-640, _on_field_select: the list entry idx is selected; when
\* _render_page raises, _select_field is not reached
OnFieldSelect ==
    /\ \E idx \in 1..Len(app.fields) :
           LET moved == [app EXCEPT !.current_page = app.fields[idx].page]
           IN  app' = IF RenderRaises(moved) THEN moved
                      ELSE [moved EXCEPT !.selected_field = idx]
    /\ UNCHANGED <<saved_template, extractor>>

\* lines 663-677, _edit_selected with a name from the dialog
EditSelected ==
    /\ app.selected_field # 0
    /\ \E field_name \in DialogNames, use_ocr \in BOOLEAN :
           app' = [app EXCEPT !.fields[app.selected_field] =
                      [@ EXCEPT !.name = field_name, !.ocr_mode = use_ocr,
                                !.field_type = TypeForName(field_name)]]
    /\ UNCHANGED <<saved_template, extractor>>

\* lines 679-690, _delete_selected
DeleteSelected ==
    /\ app.selected_field # 0
    /\ app' = [app EXCEPT
           !.fields = SubSeq(@, 1, app.selected_field - 1)
                      \o SubSeq(@, app.selected_field + 1, Len(@)),
           !.selected_field = 0]
    /\ UNCHANGED <<saved_template, extractor>>

\* lines 430-452 and 692-696, _on_right_click on a box of the current page
\* and "Change Type": the box is selected and its type toggled
ToggleType ==
    /\ PdfLoaded(app)
    /\ \E r \in DrawnRects :
           LET clicked == get_field_at(app, r[1], r[2])
           IN  /\ clicked # 0
               /\ app' = [app EXCEPT
                      !.selected_field = clicked,
                      !.fields[clicked].field_type = ToggledType(@)]
    /\ UNCHANGED <<saved_template, extractor>>

\* lines 721-747, _save_template
SaveTemplate ==
    /\ app.fields # <<>>
    /\ saved_template' =
           <<[page_width |-> 600, page_height |-> 800,
              total_pages |-> app.total_pages,
              fields |-> [i \in 1..Len(app.fields) |-> to_dict(app.fields[i])]]>>
    /\ UNCHANGED <<app, extractor>>

\* the templates the user can pick in the load dialog
LoadableTemplates ==
    StockTemplates \cup {saved_template[i] : i \in 1..Len(saved_template)}

\* lines 749-780, _load_template
MarkerLoadTemplate ==
    /\ \E t \in LoadableTemplates :
           app' = [app EXCEPT
                      !.fields = [i \in 1..Len(TemplateFields(t)) |->
                                     from_dict(TemplateFields(t)[i])],
                      !.selected_field = 0]
    /\ UNCHANGED <<saved_template, extractor>>

MarkerNext ==
    \/ OpenPdf
    \/ PrevPage
    \/ NextPage
    \/ OnPressSelect
    \/ OnRelease
    \/ OnFieldSelect
    \/ EditSelected
    \/ DeleteSelected
    \/ ToggleType
    \/ SaveTemplate
    \/ MarkerLoadTemplate

MarkerSpec == MarkerInit /\ [][MarkerNext]_vars

-----------------------------------------------------------------------------
(* Properties. *)

\* the result entries of a page_result
Entries(pr) == {pr.fields[n][i] : <<n, i>> \in
                  {<<m, k>> \in (DOMAIN pr.fields) \X (1..Len(TemplateFields(template))) :
                      k <= Len(pr.fields[m])}}

\* every page_result built so far, the one in progress included
PageResults == {results.pages[i] : i \in 1..Len(results.pages)} \cup {page_result}

AllEntries == UNION {Entries(pr) : pr \in PageResults}

\* the current field is a barcode field that has entered decode_barcodes_and_qr
InBarcodeField ==
    /\ pc \in {"raised"} \cup {"method1", "method2", "method3", "method4",
                               "no_more_methods", "decode_return"}
    /\ field_pos <= Len(TemplateFields(template))
    /\ FieldType(field_def) = "barcode"

\* C1: the rectangle handed to the strategy, and the coordinates every result
\* reports, have x0 <= x1 and y0 <= y1
C1_RectNormalized ==
    /\ RatLe(rect.x0, rect.x1) /\ RatLe(rect.y0, rect.y1)
    /\ \A e \in AllEntries :
          e.coordinates.x0 <= e.coordinates.x1 /\ e.coordinates.y0 <= e.coordinates.y1

\* the four methods of the chain, in source order
MethodNames == <<"pyzbar", "opencv_qr", "qreader", "pyzbar_preprocessed">>

MethodQuality == <<"good", "opencv", "qreader", "preprocessed">>

MethodAvailable(i) ==
    CASE i = 1 -> PYZBAR_AVAILABLE
      [] i = 2 -> TRUE
      [] i = 3 -> QREADER_AVAILABLE
      [] i = 4 -> PYZBAR_AVAILABLE

\* the backend of method i returns at least one non-empty decode on this page
MethodYields(i) ==
    CASE i = 1 -> ~page.pyzbar.exc /\ page.pyzbar.val # <<>>
      [] i = 2 -> ~page.opencv.exc /\ Truthy(page.opencv.val)
      [] i = 3 -> /\ ~page.qreader.exc
                  /\ \E k \in 1..Len(page.qreader.val) : Truthy(page.qreader.val[k])
      [] i = 4 -> ~page.pyzbar_pre.exc /\ page.pyzbar_pre.val # <<>>

Successful == {i \in 1..4 : MethodAvailable(i) /\ MethodYields(i)}

FirstSuccessful == CHOOSE i \in Successful : \A j \in Successful : i <= j

\* the methods that must run: the available ones up to the first that yields
MustRun(i) ==
    MethodAvailable(i) /\ (Successful = {} \/ i <= FirstSuccessful)

ExpectedCalls ==
    LET Name(i) == MethodNames[i]
        ran == SelectSeq(<<1, 2, 3, 4>>, MustRun)
    IN  [k \in 1..Len(ran) |-> Name(ran[k])]

Called(name) == \E k \in 1..Len(calls) : calls[k] = name

\* C2: the methods run in source order up to the first one whose backend
\* yields a non-empty decode, none after it, and method names that one
C2_StopsAtFirstSuccess ==
    pc = "decode_return" =>
        /\ calls = <<"get_pixmap">> \o ExpectedCalls
        /\ decode.method = IF Successful = {} THEN NoneVal
                           ELSE MethodNames[FirstSuccessful]

\* an exception was raised inside the try block of method i
MethodRaised(i) ==
    /\ Called(MethodNames[i])
    /\ CASE i = 1 -> page.pyzbar.exc \/ ConvertObjects(page.pyzbar.val, "good").exc
         [] i = 2 -> page.opencv.exc
         [] i = 3 -> page.qreader.exc
         [] i = 4 -> \/ page.pyzbar_pre.exc
                     \/ ConvertObjects(page.pyzbar_pre.val, "preprocessed").exc

\* C3: a method that raised contributes no code, leaves a diagnostic, and
\* the next available method is still attempted
C3_RaisingStepIsEmptyAndChainProceeds ==
    pc = "decode_return" =>
        \A i \in 1..4 :
            MethodRaised(i) =>
                /\ \A k \in 1..Len(decode.codes) :
                       decode.codes[k].quality # MethodQuality[i]
                /\ Truthy(decode.error)
                /\ \A j \in (i + 1)..4 :
                       (MethodAvailable(j)
                        /\ \A m \in (i + 1)..(j - 1) : ~MethodAvailable(m))
                       => Called(MethodNames[j])

\* C4: a barcode field never raises, and when no method decoded a symbol the
\* outcome is decoded = false with a non-empty diagnostic
C4_NoSymbolIsNotAnError ==
    /\ InBarcodeField => pc # "raised"
    /\ (pc = "decode_return" /\ decode.codes = <<>>)
           => ~decode.decoded /\ Truthy(decode.error)

\* C5: when methods 1 to 3 yield nothing and the decoder finds symbols with
\* text on the binarized image, the preprocessing step runs and the outcome
\* is decoded = true with every such symbol
C5_FoundAfterBinarization ==
    (/\ pc = "decode_return"
     /\ PYZBAR_AVAILABLE
     /\ \A i \in 1..3 : ~MethodYields(i)
     /\ ~page.pyzbar_pre.exc)
    => \A k \in 1..Len(page.pyzbar_pre.val) :
           ~DecodeUtf8(page.pyzbar_pre.val[k].data).exc
           => /\ Called("pyzbar_preprocessed")
              /\ decode.decoded
              /\ decode.method = "pyzbar_preprocessed"
              /\ \E c \in 1..Len(decode.codes) :
                     /\ decode.codes[c].type = page.pyzbar_pre.val[k].type
                     /\ decode.codes[c].data = page.pyzbar_pre.val[k].data

fields_of_template == TemplateFields(template)

TemplateRecognised ==
    \A i \in 1..Len(fields_of_template) :
        FieldType(fields_of_template[i]) \in RecognisedFieldTypes

EntryCount(pr) == Cardinality({<<n, k>> \in (DOMAIN pr.fields) \X (1..Len(fields_of_template)) :
                                  k <= Len(pr.fields[n])})

\* C6: with recognised modes the run is never aborted, and every processed
\* page holds one entry per field definition
C6_RunNeverAborts ==
    TemplateRecognised =>
        /\ pc # "raised"
        /\ \A i \in 1..Len(results.pages) :
               EntryCount(results.pages[i]) = Len(fields_of_template)

\* C7: no field definition with an unrecognised mode is ever processed
C7_UnknownModeRejected ==
    \A i \in 1..Len(fields_of_template) :
        i < field_pos => FieldType(fields_of_template[i]) \in RecognisedFieldTypes

\* the strategy a field definition selects / a result entry came from
KindOfField(fd) ==
    IF FieldType(fd) \in {"image", "barcode"} THEN FieldType(fd)
    ELSE IF OcrMode(fd) THEN "ocr" ELSE "digital"

KindOfEntry(e) == IF e.type = "text" THEN e.method ELSE e.type

FieldsNamed(n) == SelectSeq(fields_of_template, LAMBDA fd : fd.name = n)

TemplateNames == {fields_of_template[i].name : i \in 1..Len(fields_of_template)}

\* C8: on every processed page, the entries under a name are the results of
\* the field definitions of that name, one each, in template order
C8_SameNameEntriesKept ==
    \A i \in 1..Len(results.pages) :
        LET f == results.pages[i].fields
        IN  \A n \in TemplateNames :
                /\ n \in DOMAIN f
                /\ Len(f[n]) = Len(FieldsNamed(n))
                /\ \A k \in 1..Len(f[n]) :
                       KindOfEntry(f[n][k]) = KindOfField(FieldsNamed(n)[k])

C8_Witness ==
    \E i \in 1..Len(results.pages) :
        \E n \in DOMAIN results.pages[i].fields :
            LET l == results.pages[i].fields[n]
            IN  Len(l) = 2 /\ KindOfEntry(l[1]) # KindOfEntry(l[2])

\* C9: whatever the order of the requested page numbers (all of them valid
\* indices), the pages of the finished document are in ascending page order
C9_PagesAscending ==
    (pc = "done" /\ \A k \in 1..Len(pages) : pages[k] >= 0) =>
        \A i \in 1..Len(results.pages) : \A j \in 1..Len(results.pages) :
            i < j => results.pages[i].page_number <= results.pages[j].page_number

\* the page numbers the loop has passed that lie inside the document
PassedInside ==
    SelectSeq(SubSeq(pages_to_process, 1, page_pos - 1), LAMBDA p : p < Len(doc))

\* C10: a page number at or beyond the page count yields no page entry, and
\* every other page number the loop has passed yields its entry
C10_BeyondDocumentSkipped ==
    /\ Len(results.pages) = Len(PassedInside)
    /\ \A i \in 1..Len(results.pages) :
           results.pages[i].page_number = PassedInside[i] + 1
    /\ pc = "done" => page_pos = Len(pages_to_process) + 1

C10_Witness ==
    /\ pc = "done"
    /\ \E i \in 1..Len(pages_to_process) : \E j \in 1..Len(pages_to_process) :
           /\ i < j
           /\ pages_to_process[i] >= Len(doc)
           /\ pages_to_process[j] < Len(doc)
    /\ Len(results.pages) >= 1

\* the (symbol type, decoded text) pairs of a code list
Pairs(codes) == [k \in 1..Len(codes) |-> <<codes[k].type, codes[k].data>>]

\* the symbols with text that the backend of the named method returned, in
\* the order in which it returned them
DecodableObjects(objs) ==
    Pairs(SelectSeq(objs, LAMBDA obj : ~DecodeUtf8(obj.data).exc))

Produced(method) ==
    CASE method = "pyzbar" -> DecodableObjects(page.pyzbar.val)
      [] method = "opencv_qr" -> <<<<"QRCODE", page.opencv.val>>>>
      [] method = "qreader" ->
            Pairs(SelectSeq([k \in 1..Len(page.qreader.val) |->
                                [type |-> "QRCODE", data |-> page.qreader.val[k]]],
                            LAMBDA c : Truthy(c.data)))
      [] method = "pyzbar_preprocessed" -> DecodableObjects(page.pyzbar_pre.val)
      [] OTHER -> <<>>

\* s can be obtained from t by deleting elements
RECURSIVE IsSubsequence(_, _)
IsSubsequence(s, t) ==
    IF s = <<>> THEN TRUE
    ELSE IF t = <<>> THEN FALSE
    ELSE IF Head(s) = Head(t) THEN IsSubsequence(Tail(s), Tail(t))
    ELSE IsSubsequence(s, Tail(t))

\* C11: the code list of a decode outcome holds no two entries with the same
\* (symbol type, decoded text) pair, and its entries follow the order in which
\* the succeeding method produced them
C11_CodesDistinctInProducedOrder ==
    pc = "decode_return" =>
        /\ \A i \in 1..Len(decode.codes) : \A j \in 1..Len(decode.codes) :
               i # j => Pairs(decode.codes)[i] # Pairs(decode.codes)[j]
        /\ IsSubsequence(Pairs(decode.codes), Produced(decode.method))

\* the number of times decode_barcodes_and_qr has rasterized the region
Rasterizations == Cardinality({k \in 1..Len(calls) : calls[k] = "get_pixmap"})

\* C12: an outcome with decoded = false is returned only after the region
\* has been rasterized a second time, at the higher zoom, and decoded again
C12_EscalatesBeforeGivingUp ==
    (pc = "decode_return" /\ ~decode.decoded) => Rasterizations >= 2

\* a field of the current page is being processed: scale, page and page_num
\* are those of the page the loop is on
InFieldProcessing ==
    pc \in {"field_loop", "method1", "method2", "method3", "method4",
            "no_more_methods", "decode_return", "raised"}

\* the rational q is page_dim / template_dim when template_dim > 0, else 1
IsScaleOf(q, page_dim, template_dim) ==
    /\ template_dim > 0 => q[1] * template_dim = page_dim * q[2]
    /\ template_dim <= 0 => q[1] = q[2]

\* C13: scale_x is page width / template width when the template width is
\* positive and 1 otherwise (zero, negative or missing), and scale_y is
\* decided in the same way from the heights alone
C13_ScaleFactors ==
    InFieldProcessing =>
        /\ IsScaleOf(scale[1], page.width, TemplatePageWidth(template))
        /\ IsScaleOf(scale[2], page.height, TemplatePageHeight(template))

C13_Witness ==
    /\ pc = "field_loop"
    /\ "page_width" \in DOMAIN template
    /\ template.page_width > 0
    /\ template.page_width # page.width
    /\ TemplatePageHeight(template) < 0
    /\ scale[2] = <<1, 1>>

\* a rectangle has been resolved on the current page
RectResolved ==
    \/ pc = "field_loop" /\ field_pos > 1
    \/ pc \in {"method1", "method2", "method3", "method4", "no_more_methods",
               "decode_return", "raised"}

\* the field definition whose rectangle was resolved last
LastDef ==
    IF pc = "field_loop" THEN fields_of_template[field_pos - 1] ELSE field_def

RatEq(a, b) == a[1] * b[2] = b[1] * a[2]

\* the rectangle r is (a, b, c, d)
RectIs(r, a, b, c, d) ==
    /\ RatEq(r.x0, Int2(a)) /\ RatEq(r.y0, Int2(b))
    /\ RatEq(r.x1, Int2(c)) /\ RatEq(r.y1, Int2(d))

DefIs(fd, a, b, c, d) == fd.x0 = a /\ fd.y0 = b /\ fd.x1 = c /\ fd.y1 = d

PageIs(w, h) == page.width = w /\ page.height = h

\* C14: the resolved rectangle is the template rectangle times scale_x on
\* the x coordinates and scale_y on the y coordinates; on a 600 x 800 page
\* (10, 20, 100, 50) resolves to itself under a 0 x 0 template and to
\* (20, 40, 200, 100) under a 300 x 400 template
C14_ResolvedRect ==
    RectResolved =>
        /\ RatEq(rect.x0, <<LastDef.x0 * scale[1][1], scale[1][2]>>)
        /\ RatEq(rect.y0, <<LastDef.y0 * scale[2][1], scale[2][2]>>)
        /\ RatEq(rect.x1, <<LastDef.x1 * scale[1][1], scale[1][2]>>)
        /\ RatEq(rect.y1, <<LastDef.y1 * scale[2][1], scale[2][2]>>)
        /\ (PageIs(600, 800) /\ DefIs(LastDef, 10, 20, 100, 50)) =>
              /\ (TemplatePageWidth(template) = 0 /\ TemplatePageHeight(template) = 0)
                     => RectIs(rect, 10, 20, 100, 50)
              /\ (TemplatePageWidth(template) = 300 /\ TemplatePageHeight(template) = 400)
                     => RectIs(rect, 20, 40, 200, 100)

C14_Witness ==
    /\ pc = "field_loop" /\ field_pos > 1
    /\ PageIs(600, 800)
    /\ DefIs(LastDef, 10, 20, 100, 50)
    /\ TemplatePageWidth(template) = 300 /\ TemplatePageHeight(template) = 400
    /\ RectIs(rect, 20, 40, 200, 100)

\* the library calls of the strategy of a mode: calls holds what the field
\* processed last has invoked
StrategyInvoked(mode, ocr) ==
    CASE mode = "image" -> calls = <<"get_images">>
      [] mode = "barcode" ->
            /\ calls # <<>> /\ Head(calls) = "get_pixmap"
            /\ \A k \in 2..Len(calls) : \E i \in 1..4 : calls[k] = MethodNames[i]
      [] mode = "text" /\ ocr ->
            calls \in {<<"get_pixmap">>, <<"get_pixmap", "tesseract">>}
      [] mode = "text" /\ ~ocr -> calls = <<"get_text">>
      [] OTHER -> TRUE

\* C15: the field processed last invoked the one strategy of its mode (the
\* OCR flag counting for text fields only), every result entry has the mode
\* of its field definition as its type, and a text entry has method "ocr"
\* or "digital" as the OCR flag says
C15_StrategyByMode ==
    /\ RectResolved => StrategyInvoked(FieldType(LastDef), OcrMode(LastDef))
    /\ \A pr \in PageResults : \A n \in DOMAIN pr.fields :
           \A k \in 1..Len(pr.fields[n]) :
               LET e == pr.fields[n][k]
                   fd == FieldsNamed(n)[k]
               IN  /\ e.type = FieldType(fd)
                   /\ e.type = "text" =>
                          e.method = IF OcrMode(fd) THEN "ocr" ELSE "digital"

\* the page a page_result was built from
PageOf(pr) == PageAt(doc, pr.page_number - 1)

\* the entries that extract_text_via_ocr produced on a page
OcrEntries(pr) == {e \in Entries(pr) : e.type = "text" /\ e.method = "ocr"}

\* C16: the entry of a text field whose OCR backend raised is not tagged
\* with confidence "extracted"
C16_FailedOcrNotExtracted ==
    \A pr \in PageResults : \A e \in OcrEntries(pr) :
        PageOf(pr).tesseract.exc => e.confidence # "extracted"

\* the text recognition of this page raises Exception("e") on an image that
\* was rasterized without error
RecognitionFails(pg) == ~pg.pixmap.exc /\ pg.tesseract.exc

\* C17: when the text-recognition backend raises, extract_text_via_ocr
\* returns the string "[OCR Failed: e]" instead of raising, the field gets
\* that string as its value, and every field of the page still gets its entry
C17_OcrFailureIsReturned ==
    /\ \A i \in 1..Len(doc) :
           RecognitionFails(doc[i]) =>
               extract_text_via_ocr(doc[i], rect) = Returned("[OCR Failed: e]")
    /\ (InFieldProcessing /\ RecognitionFails(page)) =>
           /\ pc # "raised"
           /\ \A e \in OcrEntries(page_result) : e.value = "[OCR Failed: e]"
    /\ \A i \in 1..Len(results.pages) :
           RecognitionFails(PageOf(results.pages[i])) =>
               EntryCount(results.pages[i]) = Len(fields_of_template)

C17_Witness ==
    \E i \in 1..Len(results.pages) :
        LET pr == results.pages[i]
        IN  /\ RecognitionFails(PageOf(pr))
            /\ Len(fields_of_template) = 2
            /\ KindOfField(fields_of_template[1]) = "ocr"
            /\ fields_of_template[1].name # fields_of_template[2].name
            /\ pr.fields[fields_of_template[1].name][1].value = "[OCR Failed: e]"
            /\ Len(pr.fields[fields_of_template[2].name]) = 1

\* the placements <<image, placement>> of the page
Placements(pg) ==
    UNION {{<<i, j>> : j \in 1..Len(pg.images[i])} : i \in 1..Len(pg.images)}

\* the placements whose rectangle intersects r
Overlapping(pg, r) == {pl \in Placements(pg) : Intersects(pg.images[pl[1]][pl[2]], r)}

\* an image field was processed last; its entry is the last one under its name
ImageFieldDone ==
    pc = "field_loop" /\ field_pos > 1 /\ FieldType(LastDef) = "image"

LastEntry == LET l == page_result.fields[LastDef.name] IN l[Len(l)]

\* C18: the count reported for an image field is the number of image
\* placements of the page that intersect the field's rectangle, and the
\* found flag is true exactly when that count is positive
C18_ImageCount ==
    /\ InFieldProcessing =>
           check_images_in_rect(page, rect) =
               <<Cardinality(Overlapping(page, rect)) > 0,
                 Cardinality(Overlapping(page, rect))>>
    /\ ImageFieldDone =>
           /\ LastEntry.image_count = Cardinality(Overlapping(page, rect))
           /\ LastEntry.has_images <=> LastEntry.image_count > 0

C18_Witness ==
    /\ ImageFieldDone
    /\ Len(page.images) = 1
    /\ Len(page.images[1]) = 2
    /\ LastEntry.image_count = 2
    /\ LastEntry.has_images

\* C19: when the template file or the PDF is missing, main loads no
\* template, extracts nothing and writes no output file, and once it has
\* returned it has reported the missing file and its status is 1
C19_MissingFileStopsMain ==
    (~template_exists \/ ~pdf_exists) =>
        /\ pc \in {"main", "exit"}
        /\ template = NotLoaded
        /\ results = NoResults /\ page_result = NoPageResult /\ calls = <<>>
        /\ output_file = <<>>
        /\ pc = "exit" =>
               /\ exit_status = <<1>>
               /\ printed = <<IF ~template_exists
                              THEN "Error: Template file not found"
                              ELSE "Error: PDF file not found">>

C19_Witness ==
    /\ template_exists /\ ~pdf_exists
    /\ pc = "exit"
    /\ exit_status = <<1>>
    /\ printed = <<"Error: PDF file not found">>

\* what the idempotence of the extraction compares in a result entry
Compared(e) ==
    [value |-> e.value, type |-> e.type, coordinates |-> e.coordinates,
     decoded |-> IF "decoded" \in DOMAIN e THEN <<e.decoded>> ELSE <<>>]

\* two documents hold the same pages, the same names on every page and,
\* entry by entry, the same compared fields
SameEntries(a, b) ==
    /\ Len(a.pages) = Len(b.pages)
    /\ \A i \in 1..Len(a.pages) :
           LET f == a.pages[i].fields
               g == b.pages[i].fields
           IN  /\ a.pages[i].page_number = b.pages[i].page_number
               /\ DOMAIN f = DOMAIN g
               /\ \A n \in DOMAIN f :
                      /\ Len(f[n]) = Len(g[n])
                      /\ \A k \in 1..Len(f[n]) : Compared(f[n][k]) = Compared(g[n][k])

\* a run has saved its document over the document of the run before
SavedAgain == pc = "exit" /\ exit_status = <<0>> /\ previous # <<>>

\* C20: the document a run saves has, entry by entry, the value, type,
\* coordinates and decoded fields of the document the run before it saved
\* from the same command line and files
C20_RerunSameEntries ==
    SavedAgain => SameEntries(previous[1], output_file[1])

C20_Witness ==
    /\ SavedAgain
    /\ output_file[1].extraction_date # previous[1].extraction_date
    /\ \E i \in 1..Len(output_file[1].pages) :
           \E n \in DOMAIN output_file[1].pages[i].fields :
               LET e == output_file[1].pages[i].fields[n][1]
               IN  "decoded" \in DOMAIN e /\ e.decoded

\* the text entries of every page_result built so far
TextEntries == {e \in AllEntries : e.type = "text"}

\* C21: a text entry is tagged "extracted" exactly when its value is a
\* non-empty string and "empty" exactly when its value is the empty string,
\* and carries no other tag
C21_ConfidenceByEmptiness ==
    \A e \in TextEntries :
        /\ e.confidence \in {"extracted", "empty"}
        /\ e.confidence = "extracted" <=> e.value # ""
        /\ e.confidence = "empty" <=> e.value = ""

\* a page whose recognised text is white space only gave an "empty" entry
C21_Witness ==
    /\ InFieldProcessing
    /\ ~page.tesseract.exc /\ page.tesseract.val # <<>>
    /\ \E e \in OcrEntries(page_result) : e.value = "" /\ e.confidence = "empty"

\* C22: an outcome that decode_barcodes_and_qr returns has either decoded
\* true, a non-empty code list, a method and no error, or decoded false, an
\* empty code list, no method and a non-empty error
C22_OutcomeConsistent ==
    pc = "decode_return" =>
        IF decode.decoded
        THEN decode.codes # <<>> /\ decode.method # NoneVal /\ decode.error = NoneVal
        ELSE decode.codes = <<>> /\ decode.method = NoneVal /\ Truthy(decode.error)

\* the page numbers the user asked for: those of --pages, or every page of
\* the document when there is no --pages
RequestedNumbers ==
    IF args_pages = <<>> THEN 1..Len(doc)
    ELSE {ParseInt(args_pages[k]).val : k \in 1..Len(args_pages)}

\* C23: every page entry of the document has a page_number from 1 to
\* total_pages that is one of the page numbers the user asked for
C23_PageNumbersInDocument ==
    \A i \in 1..Len(results.pages) :
        /\ results.pages[i].page_number \in 1..results.total_pages
        /\ results.pages[i].page_number \in RequestedNumbers

\* C24: every page of the document holds one entry per field definition of
\* the template, under each name as many as there are definitions of that
\* name, whatever the "page" key of a definition is
C24_EveryFieldOnEveryPage ==
    \A i \in 1..Len(results.pages) :
        /\ EntryCount(results.pages[i]) = Len(fields_of_template)
        /\ \A n \in TemplateNames :
               /\ n \in DOMAIN results.pages[i].fields
               /\ Len(results.pages[i].fields[n]) = Len(FieldsNamed(n))

\* a page holds the entries of two fields that were marked on other pages
C24_Witness ==
    \E i \in 1..Len(results.pages) :
        /\ Len(fields_of_template) = 2
        /\ \A k \in 1..2 :
               /\ "page" \in DOMAIN fields_of_template[k]
               /\ fields_of_template[k].page + 1 # results.pages[i].page_number
        /\ EntryCount(results.pages[i]) = 2

\* the field dictionaries of the template last saved
SavedFields ==
    IF saved_template = <<>> THEN {}
    ELSE {saved_template[1].fields[i] : i \in 1..Len(saved_template[1].fields)}

\* C25: every field named by a barcode or QR preset has type "barcode", in
\* the marker and in the template it saves, after any sequence of draw,
\* edit, toggle-type, load and save operations
C25_BarcodeTypeEmitted ==
    /\ \A i \in 1..Len(app.fields) :
           app.fields[i].name \in BarcodePresets => app.fields[i].field_type = "barcode"
    /\ \A d \in SavedFields : d.name \in BarcodePresets => d.type = "barcode"

\* C26: with a PDF loaded, current_page is an index of the loaded document
C26_CurrentPageInDocument ==
    PdfLoaded(app) => app.current_page \in 0..(app.total_pages - 1)

====
